---- MODULE Spec2Model ----
(***************************************************************************)
(* GetCodeGraphFromNodeIdTool.run and its helpers                          *)
(* (app/modules/intelligence/tools/code_query_tools/                       *)
(*  get_code_graph_from_node_id_tool.py) as a state machine.               *)
(*                                                                         *)
(* One call of run is followed from its entry to its return value.  The    *)
(* relational store (projects), the graph store (store, file_path) and     *)
(* the failures of both are the environment.  build_node_tree is followed  *)
(* frame by frame, with the list iterator of its for loop as an index, so  *)
(* that list.remove inside the loop acts on the list being iterated as it  *)
(* does in Python.                                                         *)
(*                                                                         *)
(* Data: a node id is a number; a child reference is a record              *)
(* [id, relationship, has_children], has_children standing for the         *)
(* presence of the "children" key that build_node_tree adds to a           *)
(* reference; the scalar fields name, type, start_line and end_line are    *)
(* copied untouched by the code and are left out.  A string that the code  *)
(* splits or formats is a sequence of tokens.                              *)
(*                                                                         *)
(* The rate limiter of app/modules/utils/Cooldown_helper.py is modelled    *)
(* next to it: its two module globals, a clock for time.time(), and the    *)
(* coroutines that call check_and_wait_for_cooldown on one event loop,     *)
(* each of which runs without interruption up to its await.                *)
(***************************************************************************)
EXTENDS Integers, Sequences, FiniteSets, TLC

VARIABLES
    pc,             \* position of the call inside run
    projects,       \* ids of the rows of the Project table (sql_db)
    store,          \* graph store: store[i] is the row of node i (its children column), or NoRow
    file_path,      \* graph store: file_path[i] is the file_path property of node i
    project_id,     \* argument of run
    node_id,        \* argument of run
    project,        \* local of run: the Project row, or NoProject
    node_map,       \* local of _build_tree: id -> children list (mutated in place)
    visited,        \* local of _build_tree
    stack,          \* frames of build_node_tree: [node, i], i = items the for loop has yielded
    graph_data,     \* local of run: <<id of the root record>>, or NoGraph
    exc,            \* the exception in flight, or NoExc
    result,         \* return value of run, or NoResult
    sessions_open,  \* graph store sessions currently open
    sessions_acquired, \* graph store sessions opened since the call started
    queries,        \* session.run calls issued since the call started
    lookups,        \* sql_db queries issued since the call started
    expanded,       \* ids for which build_node_tree passed its visited test, in order
    API_COOLDOWN_SECONDS,    \* Cooldown_helper: the cooldown in force
    last_api_call_timestamp, \* Cooldown_helper: <<time of the last call let through>>, or None
    clock,          \* what time.time() returns
    coroutines,     \* coroutines[c]: where c stands in check_and_wait_for_cooldown, and when
    helper_call,    \* the last call of set_cooldown_duration or get_cooldown_duration
    last_set        \* the argument of the last set_cooldown_duration that returned

\* the state of the rate limiter
cdVars == <<API_COOLDOWN_SECONDS, last_api_call_timestamp, clock, coroutines, helper_call,
            last_set>>

\* the state of a call of run
toolVars == <<pc, projects, store, file_path, project_id, node_id, project, node_map,
              visited, stack, graph_data, exc, result, sessions_open,
              sessions_acquired, queries, lookups, expanded>>

vars == <<pc, projects, store, file_path, project_id, node_id, project, node_map,
          visited, stack, graph_data, exc, result, sessions_open,
          sessions_acquired, queries, lookups, expanded, cdVars>>

----------------------------------------------------------------------------
(* Bounds of the model.                                                    *)

\* ids of the graph nodes are 1..NumIds
NumIds == 3
\* child references in one fetched node set, over all its rows
MaxEdges == 3
\* tokens in a stored file_path
MaxPathLen == 6
\* coroutines that call check_and_wait_for_cooldown, one call each
NumCoroutines == 3
\* largest cooldown that is set
MaxCooldown == 2
\* last tick of the clock
MaxTime == 3

----------------------------------------------------------------------------
(* Values.                                                                 *)

NoRow == [present |-> FALSE, children |-> <<>>]
Row(column) == [present |-> TRUE, children |-> column]
NoProject == [found |-> FALSE, repo_name |-> "", branch_name |-> ""]
NoGraph == <<>>
NoExc == "none"
NoResult == [pending |-> TRUE]

RelTypes == <<"CONTAINS", "CALLS">>

\* relationship: type(r) of the k-th child collected for node p
RelOf(p, k) == RelTypes[((p + k) % 2) + 1]

\* one element of the children column: collect({id: child.node_id, ..., relationship: type(r)})
ChildRef(p, k, c) == [id |-> c, relationship |-> RelOf(p, k), has_children |-> FALSE]

\* the children column of node p, given the ids of its children in order
ChildrenColumn(p, targets) == [k \in 1..Len(targets) |-> ChildRef(p, k, targets[k])]

RECURSIVE SumUpTo(_, _)
\* lens[1] + ... + lens[i]
SumUpTo(lens, i) == IF i = 0 THEN 0 ELSE lens[i] + SumUpTo(lens, i - 1)

\* the rows of a fetched node set: node i has a row iff i \in rows, its children column
\* has lens[i] references, and flat lists the ids they refer to, row after row
MakeStore(rows, lens, flat) ==
    [i \in DOMAIN lens |->
        IF i \in rows
        THEN Row(ChildrenColumn(i, SubSeq(flat, SumUpTo(lens, i - 1) + 1, SumUpTo(lens, i))))
        ELSE NoRow]

\* the shapes of the node sets over ids 1..n with at most e child references in all
Shapes(n, e) ==
    {sh \in [rows : SUBSET (1..n), lens : [1..n -> 0..e]] :
        /\ SumUpTo(sh.lens, n) <= e
        /\ \A i \in 1..n : i \notin sh.rows => sh.lens[i] = 0}

\* store is one of the node sets over ids 1..n with at most e child references
IsNodeSet(st, n, e) ==
    \E sh \in Shapes(n, e) :
        \E flat \in [1..SumUpTo(sh.lens, n) -> 1..n] :
            st = MakeStore(sh.rows, sh.lens, flat)

----------------------------------------------------------------------------
(* Strings.  A path is a sequence of tokens; "/" is the separator and every *)
(* other token is a run of characters without a separator.                  *)

PathTokens == {"/", "projects", "src"}

Unknown == <<"Unknown">>

RECURSIVE TokenSeqs(_)
TokenSeqs(n) ==
    IF n = 0 THEN {<<>>}
    ELSE TokenSeqs(n - 1) \cup
         {Append(p, t) : p \in {q \in TokenSeqs(n - 1) : Len(q) = n - 1}, t \in PathTokens}

AllPaths == TokenSeqs(MaxPathLen) \cup {Unknown}

RECURSIVE Split(_)
\* str.split("/"): the segments between the separators; "" gives [""]
Split(p) ==
    IF p = <<>> THEN <<(<<>>)>>
    ELSE LET rest == Split(Tail(p)) IN
         IF Head(p) = "/" THEN <<(<<>>)>> \o rest
         ELSE <<(<<Head(p)>> \o Head(rest))>> \o Tail(rest)

RECURSIVE Join(_)
\* "/".join(parts)
Join(parts) ==
    IF parts = <<>> THEN <<>>
    ELSE IF Len(parts) = 1 THEN parts[1]
    ELSE parts[1] \o <<"/">> \o Join(Tail(parts))

\* the last occurrence instead of the first: a search from the right
IndexOfProjectsLast(parts) ==
    IF \E k \in 1..Len(parts) : parts[k] = <<"projects">>
    THEN CHOOSE k \in 1..Len(parts) :
            /\ parts[k] = <<"projects">>
            /\ \A j \in (k + 1)..Len(parts) : parts[j] # <<"projects">>
    ELSE 0

\* parts.index("projects"), counted from 1; 0 stands for the ValueError
IndexOfProjects(parts) ==
    IF \E k \in 1..Len(parts) : parts[k] = <<"projects">>
    THEN CHOOSE k \in 1..Len(parts) :
            /\ parts[k] = <<"projects">>
            /\ \A j \in 1..(k - 1) : parts[j] # <<"projects">>
    ELSE 0

\* a slice that starts one segment early: parts[projects_index + 1:]
PartsAfterProjectOffByOne(parts, k) == SubSeq(parts, k + 1, Len(parts))

\* parts[projects_index + 2:]
PartsAfterProject(parts, k) == SubSeq(parts, k + 2, Len(parts))

_get_relative_file_path(p) ==
    IF p = <<>> \/ p = Unknown THEN Unknown
    ELSE LET parts == Split(p)
             projects_index == IndexOfProjects(parts)
         IN  IF projects_index # 0
             THEN Join(PartsAfterProject(parts, projects_index))
             ELSE p

\* the file_path property of the nodes in the graphs of Spec and SpecWide
SamplePath(i) ==
    IF i = 1 THEN <<"/", "src", "/", "projects", "/", "src", "/", "src", "/", "src">>
    ELSE IF i = 2 THEN Unknown
    ELSE IF i = 3 THEN <<"/", "src", "/", "src">>
    ELSE <<>>

----------------------------------------------------------------------------
(* Messages of the error envelopes, as the pieces of the f-strings.        *)

ProjectNotFound(pid) == [error |-> <<"Project with ID '", pid, "' not found in database">>]

\* the two arguments of the f-string exchanged
NoGraphDataFoundSwapped(nid, pid) ==
    [error |-> <<"No graph data found for node ID '", pid, "' in repo '", ToString(nid), "'">>]

NoGraphDataFound(nid, pid) ==
    [error |-> <<"No graph data found for node ID '", ToString(nid), "' in repo '", pid, "'">>]

UnexpectedError(e) == [error |-> <<"An unexpected error occurred: ", e>>]

----------------------------------------------------------------------------
(* The state of Cooldown_helper.py.                                        *)

Coroutines == 1..NumCoroutines

\* last_api_call_timestamp: Optional[float] = None
None == <<>>

\* a float: a number, or nan
Float(n) == [nan |-> FALSE, v |-> n]
NaN == [nan |-> TRUE, v |-> 0]

\* a < b on floats: a comparison with nan is False
Less(a, b) == ~a.nan /\ ~b.nan /\ a.v < b.v

Idle == [pc |-> "idle", at |-> 0]
NoHelperCall == [op |-> "none", arg |-> Float(0), raised |-> FALSE, value |-> Float(0)]

\* the module globals when the module has been imported, and nothing called yet
InitCooldown ==
    /\ API_COOLDOWN_SECONDS = Float(0)
    /\ last_api_call_timestamp = None
    /\ clock = 0
    /\ coroutines = [c \in Coroutines |-> Idle]
    /\ helper_call = NoHelperCall
    /\ last_set = Float(0)

----------------------------------------------------------------------------
(* The call.                                                               *)

ProjectRow(pid) == [found |-> TRUE, repo_name |-> "demo", branch_name |-> "main"]

InitCall ==
    /\ pc = "run"
    /\ project_id = "p1"
    /\ node_id = 1
    /\ project = NoProject
    /\ node_map = <<>>
    /\ visited = {}
    /\ stack = <<>>
    /\ graph_data = NoGraph
    /\ exc = NoExc
    /\ result = NoResult
    /\ sessions_open = 0
    /\ sessions_acquired = 0
    /\ queries = 0
    /\ lookups = 0
    /\ expanded = <<>>

Init ==
    /\ InitCall
    /\ InitCooldown
    /\ projects \in {{}, {"p1"}}
    /\ IsNodeSet(store, NumIds, MaxEdges)
    /\ file_path = [i \in 1..NumIds |-> SamplePath(i)]

\* a lookup whose result is never tested for None
HasProjectUnchecked(pid, projs) == TRUE

\* _get_project: query(Project).filter(Project.id == project_id).first() is a row
HasProject(pid, projs) == pid \in projs

\* _get_project returns the row; run goes on to _get_graph_data
GetProjectFound ==
    /\ pc = "run"
    /\ HasProject(project_id, projects)
    /\ lookups' = lookups + 1
    /\ project' = ProjectRow(project_id)
    /\ pc' = "get_graph_data"
    /\ UNCHANGED <<cdVars, projects, store, file_path, project_id, node_id, node_map, visited, stack,
                   graph_data, exc, result, sessions_open, sessions_acquired, queries, expanded>>

\* run, "if not project": the project-not-found envelope
GetProjectMissing ==
    /\ pc = "run"
    /\ ~HasProject(project_id, projects)
    /\ lookups' = lookups + 1
    /\ result' = ProjectNotFound(project_id)
    /\ pc' = "done"
    /\ UNCHANGED <<cdVars, projects, store, file_path, project_id, node_id, project, node_map, visited,
                   stack, graph_data, exc, sessions_open, sessions_acquired, queries, expanded>>

\* the relational store fails: the exception reaches run's except clause
GetProjectRaise ==
    /\ pc = "run"
    /\ lookups' = lookups + 1
    /\ exc' = "sql error"
    /\ pc' = "except"
    /\ UNCHANGED <<cdVars, projects, store, file_path, project_id, node_id, project, node_map, visited,
                   stack, graph_data, result, sessions_open, sessions_acquired, queries, expanded>>

\* _get_graph_data: "with self.neo4j_driver.session() as session"
OpenSession ==
    /\ pc = "get_graph_data"
    /\ sessions_open' = sessions_open + 1
    /\ sessions_acquired' = sessions_acquired + 1
    /\ pc' = "query"
    /\ UNCHANGED <<cdVars, projects, store, file_path, project_id, node_id, project, node_map, visited,
                   stack, graph_data, exc, result, queries, lookups, expanded>>

\* ids of the records the query returns
RecordIds(st) == {i \in DOMAIN st : st[i].present}

\* node_map = {node["id"]: node for node in nodes}, each record by its children list
NodeMapOf(st) == [i \in RecordIds(st) |-> st[i].children]

\* session.run and the list comprehension over its records: "if not nodes: return None"
RunQueryNoNodes ==
    /\ pc = "query"
    /\ RecordIds(store) = {}
    /\ queries' = queries + 1
    /\ pc' = "exit_with"
    /\ UNCHANGED <<cdVars, projects, store, file_path, project_id, node_id, project, node_map, visited,
                   stack, graph_data, exc, result, sessions_open, sessions_acquired, lookups,
                   expanded>>

\* records come back; _build_tree: "root = node_map.get(root_id); if not root: return None"
RunQueryNoRoot ==
    /\ pc = "query"
    /\ RecordIds(store) # {}
    /\ node_id \notin RecordIds(store)
    /\ queries' = queries + 1
    /\ node_map' = NodeMapOf(store)
    /\ pc' = "exit_with"
    /\ UNCHANGED <<cdVars, projects, store, file_path, project_id, node_id, project, visited, stack,
                   graph_data, exc, result, sessions_open, sessions_acquired, lookups, expanded>>

\* records come back and the root is among them: _build_tree goes on to build_node_tree(root)
RunQueryRoot ==
    /\ pc = "query"
    /\ node_id \in RecordIds(store)
    /\ queries' = queries + 1
    /\ node_map' = NodeMapOf(store)
    /\ visited' = {}
    /\ pc' = "build_tree"
    /\ UNCHANGED <<cdVars, projects, store, file_path, project_id, node_id, project, stack, graph_data,
                   exc, result, sessions_open, sessions_acquired, lookups, expanded>>

\* the graph store fails during session.run or while the records are read
RunQueryRaise ==
    /\ pc = "query"
    /\ queries' = queries + 1
    /\ exc' = "neo4j error"
    /\ pc' = "exit_with"
    /\ UNCHANGED <<cdVars, projects, store, file_path, project_id, node_id, project, node_map, visited,
                   stack, graph_data, result, sessions_open, sessions_acquired, lookups, expanded>>

----------------------------------------------------------------------------
(* build_node_tree, one frame of the recursion per element of stack.       *)

\* a build that never consults visited
InVisitedNever(id, vis) == FALSE

\* current_node["id"] in visited
InVisited(id, vis) == id \in vis

\* a filtered list that is built and then not assigned: the children stay as fetched
FilterChildrenNotAssigned(children, nm) == children

\* a filter that walks the children from the last to the first
FilterChildrenReversed(children, nm) ==
    LET kept == SelectSeq(children, LAMBDA child : child.id \in DOMAIN nm)
    IN  [k \in 1..Len(kept) |-> kept[Len(kept) + 1 - k]]

\* [child for child in current_node["children"] if child["id"] in node_map]
FilterChildren(children, nm) == SelectSeq(children, LAMBDA child : child.id \in DOMAIN nm)

\* list.remove(child): drops the first element equal to child
RemoveChild(children, child) ==
    LET k == CHOOSE j \in 1..Len(children) :
                 /\ children[j] = child
                 /\ \A h \in 1..(j - 1) : children[h] # child
    IN  SubSeq(children, 1, k - 1) \o SubSeq(children, k + 1, Len(children))

\* child["children"] = built_child["children"], child being the k-th element
AttachChildren(children, k) == [children EXCEPT ![k].has_children = TRUE]

\* the visited test fails: visited.add, the filtering of the children, and the for loop starts
EnterNode(id, callers) ==
    /\ visited' = visited \cup {id}
    /\ expanded' = Append(expanded, id)
    /\ node_map' = [node_map EXCEPT ![id] = FilterChildren(@, node_map)]
    /\ stack' = Append(callers, [node |-> id, i |-> 0])

\* _build_tree: "return build_node_tree(root)", the first call
BuildRoot ==
    /\ pc = "build_tree"
    /\ ~InVisited(node_id, visited)
    /\ EnterNode(node_id, stack)
    /\ pc' = "build"
    /\ UNCHANGED <<cdVars, projects, store, file_path, project_id, node_id, project, graph_data, exc,
                   result, sessions_open, sessions_acquired, queries, lookups>>

Top == stack[Len(stack)]
\* the frame on top after the for loop has yielded one more item
Advanced == [stack EXCEPT ![Len(stack)].i = @ + 1]
\* the item the for loop yields next: the list iterator reads the list by index
NextChild == node_map[Top.node][Top.i + 1]

\* the for loop yields a child that is not visited: build_node_tree(child_node) is entered
BuildDescend ==
    /\ pc = "build"
    /\ Top.i < Len(node_map[Top.node])
    /\ ~InVisited(NextChild.id, visited)
    /\ EnterNode(NextChild.id, Advanced)
    /\ UNCHANGED <<cdVars, pc, projects, store, file_path, project_id, node_id, project, graph_data, exc,
                   result, sessions_open, sessions_acquired, queries, lookups>>

\* the for loop yields a visited child: build_node_tree returns None and the child is removed
BuildDropVisited ==
    /\ pc = "build"
    /\ Top.i < Len(node_map[Top.node])
    /\ InVisited(NextChild.id, visited)
    /\ node_map' = [node_map EXCEPT ![Top.node] = RemoveChild(@, NextChild)]
    /\ stack' = Advanced
    /\ UNCHANGED <<cdVars, pc, projects, store, file_path, project_id, node_id, project, visited,
                   graph_data, exc, result, sessions_open, sessions_acquired, queries, lookups,
                   expanded>>

\* the for loop is exhausted in a called frame: "return current_node", and the caller
\* attaches the children to the child it had yielded
BuildReturn ==
    /\ pc = "build"
    /\ Len(stack) > 1
    /\ Top.i >= Len(node_map[Top.node])
    /\ LET caller == stack[Len(stack) - 1] IN
       node_map' = [node_map EXCEPT ![caller.node] = AttachChildren(@, caller.i)]
    /\ stack' = SubSeq(stack, 1, Len(stack) - 1)
    /\ UNCHANGED <<cdVars, pc, projects, store, file_path, project_id, node_id, project, visited,
                   graph_data, exc, result, sessions_open, sessions_acquired, queries, lookups,
                   expanded>>

\* the for loop is exhausted in the frame of the root: _build_tree and _get_graph_data return it
BuildReturnRoot ==
    /\ pc = "build"
    /\ Len(stack) = 1
    /\ Top.i >= Len(node_map[Top.node])
    /\ graph_data' = <<Top.node>>
    /\ stack' = <<>>
    /\ pc' = "exit_with"
    /\ UNCHANGED <<cdVars, projects, store, file_path, project_id, node_id, project, node_map, visited,
                   exc, result, sessions_open, sessions_acquired, queries, lookups, expanded>>

\* build_node_tree raises (RecursionError, MemoryError): the frames unwind and the
\* locals of _build_tree are dropped
BuildRaise ==
    /\ pc = "build"
    /\ exc' = "recursion error"
    /\ stack' = <<>>
    /\ node_map' = <<>>
    /\ pc' = "exit_with"
    /\ UNCHANGED <<cdVars, projects, store, file_path, project_id, node_id, project, visited, graph_data,
                   result, sessions_open, sessions_acquired, queries, lookups, expanded>>

\* build_node_tree as a function of the locals of _build_tree: b.nm is node_map, b.vis is
\* visited, b.stk the frames, and b.anc records for each expanded id the ids of its callers
Entered(b, id, callers) ==
    [nm  |-> [b.nm EXCEPT ![id] = FilterChildren(@, b.nm)],
     vis |-> b.vis \cup {id},
     stk |-> Append(callers, [node |-> id, i |-> 0]),
     anc |-> b.anc \cup {<<id, {callers[k].node : k \in 1..Len(callers)}>>}]

RECURSIVE build_node_tree(_)
\* the for loop of the frame on top, run until the frame of the root returns
build_node_tree(b) ==
    LET top      == b.stk[Len(b.stk)]
        children == b.nm[top.node]
        advanced == [b.stk EXCEPT ![Len(b.stk)].i = @ + 1]
    IN  IF top.i < Len(children)
        THEN LET child == children[top.i + 1] IN
             IF InVisited(child.id, b.vis)
             THEN build_node_tree([b EXCEPT !.nm[top.node] = RemoveChild(@, child),
                                            !.stk = advanced])
             ELSE build_node_tree(Entered(b, child.id, advanced))
        ELSE IF Len(b.stk) > 1
        THEN LET caller == b.stk[Len(b.stk) - 1] IN
             build_node_tree([b EXCEPT !.nm[caller.node] = AttachChildren(@, caller.i),
                                       !.stk = SubSeq(b.stk, 1, Len(b.stk) - 1)])
        ELSE b

\* _build_tree(nodes, root_id) for a root that has a record: the locals when it returns
_build_tree(st, root_id) ==
    build_node_tree(Entered([nm |-> NodeMapOf(st), vis |-> {}, stk |-> <<>>, anc |-> {}],
                            root_id, <<>>))

\* a session closed by an explicit close() after the body, not by the with statement
SessionsAfterExitNoFinally(n, e) == IF e # NoExc THEN n ELSE n - 1

\* open sessions after the with statement's exit, which runs on return and on exception
SessionsAfterExit(n, e) == n - 1

\* a call that goes back to the graph fetch when the fetch has raised
AfterWithRetry(e) == IF e # NoExc THEN "get_graph_data" ELSE "check_graph_data"

\* an exit of the with statement that swallows the exception
AfterWithSwallowed(e) == "check_graph_data"

\* where the call goes on after the with statement: a pending exception propagates to
\* run's except clause, a return value reaches "if not graph_data"
AfterWith(e) == IF e # NoExc THEN "except" ELSE "check_graph_data"

\* the with statement is left, by return or by exception: the session is closed
CloseSession ==
    /\ pc = "exit_with"
    /\ sessions_open' = SessionsAfterExit(sessions_open, exc)
    /\ pc' = AfterWith(exc)
    /\ UNCHANGED <<cdVars, projects, store, file_path, project_id, node_id, project, node_map, visited,
                   stack, graph_data, exc, result, sessions_acquired, queries, lookups, expanded>>

----------------------------------------------------------------------------
(* _process_graph_data.                                                    *)

\* node.get("children", []) of a child reference
GetChildren(child, nm) == IF child.has_children THEN nm[child.id] ELSE <<>>

\* a processed child that is appended without its relationship
SetRelationshipMissing(processed_child, child) == processed_child

\* processed_child["relationship"] = child["relationship"]
SetRelationship(processed_child, child) ==
    [f \in DOMAIN processed_child \cup {"relationship"} |->
        IF f = "relationship" THEN child.relationship ELSE processed_child[f]]

RECURSIVE process_node(_, _, _, _)
\* process_node of the dict with this id and this children list
process_node(id, children, nm, fp) ==
    [id |-> id,
     file_path |-> _get_relative_file_path(fp[id]),
     children |-> [k \in 1..Len(children) |->
                     SetRelationship(
                         process_node(children[k].id, GetChildren(children[k], nm), nm, fp),
                         children[k])]]

_process_graph_data(root, nm, fp, proj) ==
    [graph |-> [name |-> <<"Code Graph for ", proj.repo_name>>,
                repo_name |-> proj.repo_name,
                branch_name |-> proj.branch_name,
                root_node |-> process_node(root, nm[root], nm, fp)]]

\* run, "if not graph_data": the no-graph-data envelope
NoGraphData ==
    /\ pc = "check_graph_data"
    /\ graph_data = NoGraph
    /\ result' = NoGraphDataFound(node_id, project_id)
    /\ pc' = "done"
    /\ UNCHANGED <<cdVars, projects, store, file_path, project_id, node_id, project, node_map, visited,
                   stack, graph_data, exc, sessions_open, sessions_acquired, queries, lookups,
                   expanded>>

\* run, "return self._process_graph_data(graph_data, project)": the success envelope
ProcessGraphData ==
    /\ pc = "check_graph_data"
    /\ graph_data # NoGraph
    /\ result' = _process_graph_data(graph_data[1], node_map, file_path, project)
    /\ pc' = "done"
    /\ UNCHANGED <<cdVars, projects, store, file_path, project_id, node_id, project, node_map, visited,
                   stack, graph_data, exc, sessions_open, sessions_acquired, queries, lookups,
                   expanded>>

\* _process_graph_data raises (RecursionError, MemoryError)
ProcessGraphDataRaise ==
    /\ pc = "check_graph_data"
    /\ graph_data # NoGraph
    /\ exc' = "recursion error"
    /\ pc' = "except"
    /\ UNCHANGED <<cdVars, projects, store, file_path, project_id, node_id, project, node_map, visited,
                   stack, graph_data, result, sessions_open, sessions_acquired, queries, lookups,
                   expanded>>

\* run, "except Exception as e": the unexpected-error envelope
HandleException ==
    /\ pc = "except"
    /\ result' = UnexpectedError(exc)
    /\ pc' = "done"
    /\ UNCHANGED <<cdVars, projects, store, file_path, project_id, node_id, project, node_map, visited,
                   stack, graph_data, exc, sessions_open, sessions_acquired, queries, lookups,
                   expanded>>

----------------------------------------------------------------------------
(* Cooldown_helper.py.  Time is counted in ticks of the clock.             *)

\* "if last_api_call_timestamp is not None" and "if elapsed < API_COOLDOWN_SECONDS"
MustWait(current_time, last, cooldown) ==
    /\ last # None
    /\ Less(Float(current_time - last[1]), cooldown)

\* wait_time = API_COOLDOWN_SECONDS - elapsed, computed when the cooldown is above elapsed
WaitTime(current_time, last, cooldown) == cooldown.v - (current_time - last[1])

\* check_and_wait_for_cooldown without a wait: the timestamp is updated and the call returns
CheckNoWait(c) ==
    /\ coroutines[c].pc = "idle"
    /\ ~MustWait(clock, last_api_call_timestamp, API_COOLDOWN_SECONDS)
    /\ last_api_call_timestamp' = <<clock>>
    /\ coroutines' = [coroutines EXCEPT ![c] = [pc |-> "returned", at |-> clock]]
    /\ UNCHANGED <<toolVars, API_COOLDOWN_SECONDS, clock, helper_call, last_set>>

\* check_and_wait_for_cooldown up to "await asyncio.sleep(wait_time)": the coroutine is
\* suspended until the clock shows current_time + wait_time
CheckSleep(c) ==
    /\ coroutines[c].pc = "idle"
    /\ MustWait(clock, last_api_call_timestamp, API_COOLDOWN_SECONDS)
    /\ coroutines' = [coroutines EXCEPT ![c] =
           [pc |-> "sleeping",
            at |-> clock + WaitTime(clock, last_api_call_timestamp, API_COOLDOWN_SECONDS)]]
    /\ UNCHANGED <<toolVars, API_COOLDOWN_SECONDS, last_api_call_timestamp, clock, helper_call,
                   last_set>>

\* the sleep is over, at its due time or later: "last_api_call_timestamp = time.time()"
Wake(c) ==
    /\ coroutines[c].pc = "sleeping"
    /\ clock >= coroutines[c].at
    /\ last_api_call_timestamp' = <<clock>>
    /\ coroutines' = [coroutines EXCEPT ![c] = [pc |-> "returned", at |-> clock]]
    /\ UNCHANGED <<toolVars, API_COOLDOWN_SECONDS, clock, helper_call, last_set>>

\* time passes
Tick ==
    /\ clock < MaxTime
    /\ clock' = clock + 1
    /\ UNCHANGED <<toolVars, API_COOLDOWN_SECONDS, last_api_call_timestamp, coroutines,
                   helper_call, last_set>>

\* "if seconds < 0"
IsNegative(seconds) == Less(seconds, Float(0))

\* the arguments set_cooldown_duration is called with: the floats -1.0 .. MaxCooldown, and nan
SetArgs == {Float(n) : n \in (0 - 1)..MaxCooldown} \cup {NaN}

\* set_cooldown_duration: raise ValueError("Cooldown duration cannot be negative")
SetCooldownRaise(seconds) ==
    /\ IsNegative(seconds)
    /\ helper_call' = [op |-> "set", arg |-> seconds, raised |-> TRUE, value |-> Float(0)]
    /\ UNCHANGED <<toolVars, API_COOLDOWN_SECONDS, last_api_call_timestamp, clock, coroutines,
                   last_set>>

\* set_cooldown_duration: the global is assigned and the message with the value is returned
SetCooldown(seconds) ==
    /\ ~IsNegative(seconds)
    /\ API_COOLDOWN_SECONDS' = seconds
    /\ helper_call' = [op |-> "set", arg |-> seconds, raised |-> FALSE, value |-> seconds]
    /\ last_set' = seconds
    /\ UNCHANGED <<toolVars, last_api_call_timestamp, clock, coroutines>>

\* get_cooldown_duration: {"cooldown_seconds": API_COOLDOWN_SECONDS}
GetCooldown ==
    /\ helper_call' = [op |-> "get", arg |-> Float(0), raised |-> FALSE,
                       value |-> API_COOLDOWN_SECONDS]
    /\ UNCHANGED <<toolVars, API_COOLDOWN_SECONDS, last_api_call_timestamp, clock, coroutines,
                   last_set>>

\* no call of run is in progress: the tool stays where a call would start
IdleTool ==
    /\ InitCall
    /\ projects = {"p1"}
    /\ store = MakeStore({}, <<0, 0>>, <<>>)
    /\ file_path = <<Unknown, Unknown>>

\* the rate limiter with get and set: any sequence of the three operations
InitHelper == IdleTool /\ InitCooldown

NextHelper ==
    \/ \E seconds \in SetArgs : SetCooldownRaise(seconds)
    \/ \E seconds \in SetArgs : SetCooldown(seconds)
    \/ GetCooldown
    \/ \E c \in Coroutines : CheckNoWait(c)
    \/ \E c \in Coroutines : CheckSleep(c)
    \/ \E c \in Coroutines : Wake(c)
    \/ Tick

SpecHelper == InitHelper /\ [][NextHelper]_vars

\* the throttle with a fixed cooldown, set to a positive value before the coroutines start
InitThrottle ==
    /\ IdleTool
    /\ API_COOLDOWN_SECONDS \in {Float(n) : n \in 1..MaxCooldown}
    /\ last_set = API_COOLDOWN_SECONDS
    /\ helper_call = [op |-> "set", arg |-> last_set, raised |-> FALSE, value |-> last_set]
    /\ last_api_call_timestamp = None
    /\ clock = 0
    /\ coroutines = [c \in Coroutines |-> Idle]

NextThrottle ==
    \/ \E c \in Coroutines : CheckNoWait(c)
    \/ \E c \in Coroutines : CheckSleep(c)
    \/ \E c \in Coroutines : Wake(c)
    \/ Tick

SpecThrottle == InitThrottle /\ [][NextThrottle]_vars

----------------------------------------------------------------------------
(* The specifications of a call of run.                                    *)

Next ==
    \/ GetProjectFound
    \/ GetProjectMissing
    \/ GetProjectRaise
    \/ OpenSession
    \/ RunQueryNoNodes
    \/ RunQueryNoRoot
    \/ RunQueryRoot
    \/ RunQueryRaise
    \/ BuildRoot
    \/ BuildDescend
    \/ BuildDropVisited
    \/ BuildReturn
    \/ BuildReturnRoot
    \/ BuildRaise
    \/ CloseSession
    \/ NoGraphData
    \/ ProcessGraphData
    \/ ProcessGraphDataRaise
    \/ HandleException

Spec == Init /\ [][Next]_vars

\* run is synchronous code on one thread: a step that can be taken is taken
FairSpec == Spec /\ WF_vars(Next)

\* node sets with one more id and one more child reference than those of Spec
InitWide ==
    /\ InitCall
    /\ InitCooldown
    /\ projects \in {{}, {"p1"}}
    /\ IsNodeSet(store, NumIds + 1, MaxEdges + 1)
    /\ file_path = [i \in 1..(NumIds + 1) |-> SamplePath(i)]

SpecWide == InitWide /\ [][Next]_vars

\* a cycle of two nodes, a node set without the root, and no records at all
PathStores ==
    {MakeStore({1, 2}, <<1, 1>>, <<2, 1>>),
     MakeStore({2}, <<0, 0>>, <<>>),
     MakeStore({}, <<0, 0>>, <<>>)}

\* every path of the bound as the file_path of the root
InitPaths ==
    /\ InitCall
    /\ InitCooldown
    /\ projects \in {{}, {"p1"}}
    /\ store \in PathStores
    /\ \E p \in AllPaths, q \in {SamplePath(i) : i \in 1..NumIds} : file_path = <<p, q>>

SpecPaths == InitPaths /\ [][Next]_vars


----------------------------------------------------------------------------
(* The tree _build_tree returns, read off the dicts it has mutated, and    *)
(* operators on trees: a tree is a record with an id and a sequence of     *)
(* children that are trees.                                                *)

RECURSIVE TreeOf(_, _, _)
TreeOf(id, children, nm) ==
    [id |-> id,
     children |-> [k \in 1..Len(children) |->
                     SetRelationship(
                         TreeOf(children[k].id, GetChildren(children[k], nm), nm),
                         children[k])]]

BuildReturned == graph_data # NoGraph

Built == TreeOf(graph_data[1], node_map[graph_data[1]], node_map)

IsSuccess == "graph" \in DOMAIN result

RootNode == result.graph.root_node

RECURSIVE NoRepeatOnPath(_, _)
NoRepeatOnPath(t, ancestors) ==
    /\ t.id \notin ancestors
    /\ \A k \in 1..Len(t.children) : NoRepeatOnPath(t.children[k], ancestors \cup {t.id})

RECURSIVE NodesOf(_)
\* the nodes of a tree in pre-order
NodesOf(t) ==
    LET sub[k \in 0..Len(t.children)] ==
            IF k = 0 THEN <<>> ELSE sub[k - 1] \o NodesOf(t.children[k])
    IN  <<t>> \o sub[Len(t.children)]

IdsOf(t) == [k \in 1..Len(NodesOf(t)) |-> NodesOf(t)[k].id]

NoDup(seq) == \A i, j \in 1..Len(seq) : i # j => seq[i] # seq[j]

Range(seq) == {seq[k] : k \in 1..Len(seq)}

\* ids of the records that the child references of record i resolve to
Resolved(st, i) == {st[i].children[k].id : k \in 1..Len(st[i].children)} \cap RecordIds(st)

RECURSIVE ReachableFrom(_, _)
ReachableFrom(ids, st) ==
    LET more == ids \cup UNION {Resolved(st, i) : i \in ids}
    IN  IF more = ids THEN ids ELSE ReachableFrom(more, st)

Acyclic(st) == \A i \in RecordIds(st) : i \notin ReachableFrom(Resolved(st, i), st)

\* every link of the tree has the id and the label of a child reference of its parent's record
LinksFromInput(t, st) ==
    \A n \in Range(NodesOf(t)) :
        \A k \in 1..Len(n.children) :
            /\ n.id \in RecordIds(st)
            /\ \E j \in 1..Len(st[n.id].children) :
                  /\ st[n.id].children[j].id = n.children[k].id
                  /\ st[n.id].children[j].relationship = n.children[k].relationship

TotalRefs(st) == SumUpTo([i \in DOMAIN st |-> Len(st[i].children)], Len(st))

----------------------------------------------------------------------------
(* Claims.                                                                 *)

\* C1: the tree returned by _build_tree has no id twice on any path from the root to a
\* leaf, for every node set with unique ids and every root in it.
C1_NoIdTwiceOnPath == BuildReturned => NoRepeatOnPath(Built, {})

\* C2: each id occurs at most once in the whole tree returned by _build_tree.
C2_EachIdOnce == BuildReturned => NoDup(IdsOf(Built))

\* C3: for an acyclic node set containing the root, the ids of the returned tree are
\* exactly the ids reachable from the root through child references that resolve in the
\* mapping, and every link carries the label of the child reference it came from.
C3_ReachableSubtree ==
    (BuildReturned /\ Acyclic(store)) =>
        /\ Range(IdsOf(Built)) = ReachableFrom({node_id}, store)
        /\ LinksFromInput(Built, store)

\* items the for loop of frame f has still to yield
Remaining(f) ==
    IF Len(node_map[f.node]) > f.i THEN Len(node_map[f.node]) - f.i ELSE 0

\* a number that every step of _build_tree makes smaller: the records not yet visited,
\* each weighing more than a for loop can be long, the items the open for loops have
\* still to yield, and the open frames
Variant ==
    (Cardinality(RecordIds(store)) - Cardinality(visited)) * (TotalRefs(store) + 2)
    + SumUpTo([k \in 1..Len(stack) |-> Remaining(stack[k])], Len(stack))
    + Len(stack)

\* C4: _build_tree terminates on every node set, cyclic ones included: no id is expanded
\* twice, visited only grows, the returned tree is finite (it has at most one node per
\* child reference of the input, and the root), and every step of the build lowers a
\* natural number, so that the build cannot go on for ever.
C4_Terminates ==
    /\ [](NoDup(expanded) /\ Len(stack) <= Cardinality(RecordIds(store)))
    /\ [](BuildReturned => Len(NodesOf(Built)) <= 1 + TotalRefs(store))
    /\ [][visited \subseteq visited']_vars
    /\ [](Variant >= 0)
    /\ [][(pc \in {"build_tree", "build"}) => (Variant' < Variant)]_vars

\* C4, as a liveness property of the fair call: a build that starts comes to the exit of
\* the with statement.
C4_BuildEnds == (pc = "build_tree") ~> (pc = "exit_with")

C4_Witness ==
    /\ BuildReturned
    /\ ~Acyclic(store)
    /\ \E i \in RecordIds(store) : i \in Resolved(store, i)

IsAbsolute(p) == p # <<>> /\ p[1] = "/"

HasProjectsSegment(p) == \E k \in 1..Len(Split(p)) : Split(p)[k] = <<"projects">>

\* the segment two places after the first "projects" is empty and is not the last one
EmptySegmentAfterProject(p) ==
    LET parts == Split(p)
        k == IndexOfProjects(parts)
    IN  /\ k # 0
        /\ k + 2 < Len(parts)
        /\ parts[k + 2] = <<>>

\* C5 as stated: in a success envelope the file_path of every node is "Unknown" or
\* relative, never absolute, whatever file_path the store returns.
C5_NeverAbsolute ==
    IsSuccess => \A n \in Range(NodesOf(RootNode)) : ~IsAbsolute(n.file_path)

\* C5 amended: in a success envelope the file_path of a node is "Unknown" when the stored
\* path is empty or "Unknown"; it is the stored path unchanged, absolute or not, when the
\* stored path has no "projects" segment; and when there is such a segment it is absolute
\* only if the segment two places after the first "projects" is empty and not the last.
C5_AbsoluteOnlyWithoutAnchor ==
    IsSuccess =>
        \A n \in Range(NodesOf(RootNode)) :
            LET stored == file_path[n.id] IN
            /\ (stored = <<>> \/ stored = Unknown) => n.file_path = Unknown
            /\ (stored # <<>> /\ stored # Unknown /\ ~HasProjectsSegment(stored))
                  => n.file_path = stored
            /\ (HasProjectsSegment(stored) /\ IsAbsolute(n.file_path))
                  => EmptySegmentAfterProject(stored)

C5_Witness ==
    /\ IsSuccess
    /\ IsAbsolute(RootNode.file_path)
    /\ ~HasProjectsSegment(file_path[RootNode.id])
    /\ Len(RootNode.children) > 0

\* C6: when the project lookup returns nothing, run returns the project-not-found error
\* and neither opens a graph store session nor issues a graph query.
C6_ProjectNotFound ==
    (project_id \notin projects) =>
        /\ sessions_acquired = 0
        /\ queries = 0
        /\ (pc = "done" /\ exc = NoExc) =>
              result = [error |-> <<"Project with ID '", project_id, "' not found in database">>]

C6_Witness ==
    /\ pc = "done"
    /\ project_id \notin projects
    /\ exc = NoExc
    /\ "error" \in DOMAIN result

\* C7: when the project exists and the store returns no rows or no row for root_id, run
\* returns the no-graph-data error and never a success envelope.
C7_NoGraphData ==
    (project_id \in projects /\ node_id \notin RecordIds(store)) =>
        /\ ~IsSuccess
        /\ ~BuildReturned
        /\ (pc = "done" /\ exc = NoExc) =>
              result = [error |-> <<"No graph data found for node ID '", ToString(node_id),
                                    "' in repo '", project_id, "'">>]

C7_Witness ==
    /\ pc = "done"
    /\ exc = NoExc
    /\ project_id \in projects
    /\ RecordIds(store) # {}
    /\ node_id \notin RecordIds(store)

\* C8: no failure escapes run: when a step has raised, run returns the unexpected-error
\* envelope with the message of the exception, and every call ends in one of the four
\* outcomes.
C8_FourOutcomes ==
    /\ (pc = "done" /\ exc # NoExc) =>
          result = [error |-> <<"An unexpected error occurred: ", exc>>]
    /\ (pc = "done" /\ exc = NoExc) =>
          \/ IsSuccess
          \/ result = [error |-> <<"Project with ID '", project_id, "' not found in database">>]
          \/ result = [error |-> <<"No graph data found for node ID '", ToString(node_id),
                                   "' in repo '", project_id, "'">>]
    /\ (exc # NoExc) => pc \in {"exit_with", "except", "done"}

C8_Witness ==
    /\ pc = "done"
    /\ exc = "recursion error"
    /\ sessions_acquired = 1
    /\ "error" \in DOMAIN result

\* C9: a call that reaches the graph fetcher acquires exactly one session, and when run
\* has returned, with success, no graph data or an unexpected error, no session is open.
C9_SessionReleased ==
    /\ sessions_open \in {0, 1}
    /\ sessions_acquired \in {0, 1}
    /\ (pc \in {"query", "build_tree", "build", "exit_with"}) => sessions_open = 1
    /\ (pc \in {"check_graph_data", "except", "done"}) => sessions_open = 0
    /\ (pc = "done" /\ project.found) => sessions_acquired = 1

C9_Witness ==
    /\ pc = "done"
    /\ exc = "neo4j error"
    /\ sessions_acquired = 1
    /\ sessions_open = 0

\* C10: in a success envelope the root carries no relationship, and every other node
\* carries a non-empty relationship that is the label of a child reference, in the
\* input record of its parent, to that node.
C10_RelationshipLabels ==
    IsSuccess =>
        /\ "relationship" \notin DOMAIN RootNode
        /\ \A n \in Range(NodesOf(RootNode)) :
              \A k \in 1..Len(n.children) :
                  /\ "relationship" \in DOMAIN n.children[k]
                  /\ n.children[k].relationship \in Range(RelTypes)
        /\ LinksFromInput(RootNode, store)

C10_Witness ==
    /\ IsSuccess
    /\ \E k \in 1..Len(RootNode.children) :
          /\ Len(RootNode.children[k].children) > 0
          /\ RootNode.children[k].relationship # RootNode.children[k].children[1].relationship

\* "projects" stands at place i of the path as a whole segment
IsProjectsSegmentAt(p, i) ==
    /\ p[i] = "projects"
    /\ i = 1 \/ p[i - 1] = "/"
    /\ i = Len(p) \/ p[i + 1] = "/"

\* the place of the first whole segment "projects" in the path, 0 when there is none
FirstProjectsAt(p) ==
    IF \E i \in 1..Len(p) : IsProjectsSegmentAt(p, i)
    THEN CHOOSE i \in 1..Len(p) :
            /\ IsProjectsSegmentAt(p, i)
            /\ \A j \in 1..(i - 1) : ~IsProjectsSegmentAt(p, j)
    ELSE 0

\* the places of the separators after place i
SeparatorsAfter(p, i) == {j \in (i + 1)..Len(p) : p[j] = "/"}

\* what follows the second separator after place i; nothing when there is no such separator
AfterSecondSeparator(p, i) ==
    LET seps == SeparatorsAfter(p, i) IN
    IF Cardinality(seps) < 2 THEN <<>>
    ELSE LET second == CHOOSE j \in seps : Cardinality({m \in seps : m < j}) = 1
         IN  SubSeq(p, second + 1, Len(p))

\* the normalised path as C11 words it, read off the path itself
RelativeAsStated(p) ==
    IF p = <<>> \/ p = Unknown THEN Unknown
    ELSE IF FirstProjectsAt(p) = 0 THEN p
    ELSE AfterSecondSeparator(p, FirstProjectsAt(p))

\* C11: the file_path of every node of a success envelope is "Unknown" when the stored path
\* is empty or "Unknown"; it is what follows the segment after the first "projects"
\* segment when there is one (nothing when "projects" is the last or next-to-last
\* segment); and it is the stored path unchanged when there is no "projects" segment.
C11_RelativePath ==
    IsSuccess =>
        \A n \in Range(NodesOf(RootNode)) : n.file_path = RelativeAsStated(file_path[n.id])

\* a stored path with two "projects" segments whose normalised form is not empty
C11_Witness ==
    /\ IsSuccess
    /\ LET stored == file_path[RootNode.id] IN
        /\ Cardinality({i \in 1..Len(stored) : IsProjectsSegmentAt(stored, i)}) = 2
        /\ RootNode.file_path # <<>>
        /\ RootNode.file_path # stored

\* the tree _build_tree returns for the node set st
TreeBuiltFrom(st, root_id) ==
    LET b == _build_tree(st, root_id) IN TreeOf(root_id, b.nm[root_id], b.nm)

\* the ids of the frames below that of id when id was expanded
AncestorsOf(st, root_id, id) ==
    UNION {a[2] : a \in {e \in _build_tree(st, root_id).anc : e[1] = id}}

\* the node set with the k-th child reference of record p deleted
DeleteRef(st, p, k) ==
    [st EXCEPT ![p].children = SubSeq(@, 1, k - 1) \o SubSeq(@, k + 1, Len(@))]

\* the function of the build and the frames of the call agree on the returned tree
BuildAgrees == BuildReturned => TreeBuiltFrom(store, node_id) = Built

\* C12: when a child reference of an expanded node names the node itself or one of its
\* ancestors, the returned tree is the tree returned for the same node set with that one
\* reference deleted.
C12_DropLeavesRestIntact ==
    BuildReturned =>
        \A p \in visited :
            \A k \in 1..Len(store[p].children) :
                store[p].children[k].id \in {p} \cup AncestorsOf(store, node_id, p)
                    => TreeBuiltFrom(DeleteRef(store, p, k), node_id) = Built

\* every child reference of record i names an id without a record
AllDangle(st, i) == st[i].children # <<>> /\ Resolved(st, i) = {}

\* C13: no node of the returned tree has an id without a fetched record, and a node whose
\* child references all dangle is a leaf; during the build the children list of every
\* expanded node holds only ids that have a record.
C13_DanglingDropped ==
    /\ \A id \in visited \cap DOMAIN node_map :
           \A k \in 1..Len(node_map[id]) : node_map[id][k].id \in RecordIds(store)
    /\ BuildReturned =>
           \A n \in Range(NodesOf(Built)) :
               /\ n.id \in RecordIds(store)
               /\ AllDangle(store, n.id) => n.children = <<>>

\* a returned tree with a leaf below the root whose child references all dangle, the root
\* having a dangling reference of its own
C13_Witness ==
    /\ BuildReturned
    /\ Len(Built.children) > 0
    /\ Len(store[node_id].children) > Len(Built.children)
    /\ \E n \in Range(NodesOf(Built)) : n.id # node_id /\ AllDangle(store, n.id)
    /\ \E k \in 1..Len(store[node_id].children) :
           store[node_id].children[k].id \notin RecordIds(store)

RECURSIVE IsSubsequence(_, _)
\* s is t with some elements left out, the others in the same order
IsSubsequence(s, t) ==
    IF s = <<>> THEN TRUE
    ELSE IF t = <<>> THEN FALSE
    ELSE IF Head(s) = Head(t) THEN IsSubsequence(Tail(s), Tail(t))
    ELSE IsSubsequence(s, Tail(t))

\* the ids of the children of a tree node, and of the children array of a record
ChildIds(children) == [k \in 1..Len(children) |-> children[k].id]

KeepsInputOrder(t, st) ==
    \A n \in Range(NodesOf(t)) :
        IsSubsequence(ChildIds(n.children), ChildIds(st[n.id].children))

\* C14: for every node of the tree returned by _build_tree and of the assembled root_node,
\* the ids of its children are a subsequence of the ids of the node's input children
\* array: children are never reordered or added.
C14_ChildrenSubsequence ==
    /\ BuildReturned => KeepsInputOrder(Built, store)
    /\ IsSuccess => KeepsInputOrder(RootNode, store)

\* a success whose root keeps two children with different ids out of three references
C14_Witness ==
    /\ IsSuccess
    /\ Len(store[node_id].children) = 3
    /\ Len(RootNode.children) = 2
    /\ RootNode.children[1].id # RootNode.children[2].id

\* C15: a call to run issues at most one project lookup and at most one graph query; a
\* store error in the lookup ends the call without any graph query, a store error in the
\* query ends it without a second lookup or query, and either way the call ends with the
\* unexpected-error envelope.
C15_NoRetries ==
    /\ lookups <= 1
    /\ queries <= 1
    /\ sessions_acquired <= 1
    /\ exc = "sql error" => (lookups = 1 /\ queries = 0 /\ sessions_acquired = 0)
    /\ exc = "neo4j error" => (lookups = 1 /\ queries = 1 /\ sessions_acquired = 1)
    /\ (pc = "done" /\ exc \in {"sql error", "neo4j error"}) => result = UnexpectedError(exc)
    /\ (pc # "done" /\ exc \in {"sql error", "neo4j error"}) => pc \in {"exit_with", "except"}

\* a call that has ended after its one graph query raised
C15_Witness ==
    /\ pc = "done"
    /\ exc = "neo4j error"
    /\ queries = 1
    /\ lookups = 1
    /\ result = UnexpectedError("neo4j error")

\* the coroutines whose call of check_and_wait_for_cooldown has returned
Returned == {c \in Coroutines : coroutines[c].pc = "returned"}

\* C16: with a fixed cooldown above zero, any two calls of check_and_wait_for_cooldown
\* return at least one cooldown apart, however the coroutines interleave.
C16_CallsOneCooldownApart ==
    \A c, d \in Returned :
        (c # d /\ coroutines[c].at <= coroutines[d].at)
            => coroutines[d].at - coroutines[c].at >= API_COOLDOWN_SECONDS.v

\* x >= 0 on floats
NonNegative(x) == ~x.nan /\ x.v >= 0

\* C17: set_cooldown_duration with a negative argument raises and leaves the cooldown as
\* the last set that returned left it; after any sequence of calls API_COOLDOWN_SECONDS
\* is non-negative and is the argument of the last set that returned (0.0 if none), and
\* that is what get_cooldown_duration reports.
C17_NegativeRejected ==
    /\ (helper_call.op = "set" /\ IsNegative(helper_call.arg)) => helper_call.raised
    /\ API_COOLDOWN_SECONDS = last_set
    /\ helper_call.op = "get" => helper_call.value = last_set
    /\ NonNegative(API_COOLDOWN_SECONDS)

\* C17 without its last clause, which holds: the cooldown is never below zero, a set that
\* raises changes neither global, and get reports the last set that returned.
C17_NeverBelowZero ==
    /\ [](/\ ~IsNegative(API_COOLDOWN_SECONDS)
          /\ API_COOLDOWN_SECONDS = last_set
          /\ (helper_call.op = "set" /\ IsNegative(helper_call.arg)) => helper_call.raised
          /\ (helper_call.op = "set" /\ ~IsNegative(helper_call.arg)) =>
                 (~helper_call.raised /\ API_COOLDOWN_SECONDS = helper_call.arg)
          /\ helper_call.op = "get" => helper_call.value = last_set)
    /\ [][(helper_call' # helper_call /\ helper_call'.op = "set" /\ helper_call'.raised)
             => UNCHANGED <<API_COOLDOWN_SECONDS, last_api_call_timestamp>>]_vars

====
